---------------------------- MODULE Spec2Model ----------------------------
(***************************************************************************)
(* Two example scripts of the chemreac documentation:                      *)
(*                                                                         *)
(*   analytic_N_scaling.py : main() sweeps the external solver over        *)
(*       geometry x rate x stencil x N and fits log(err) against log(N);   *)
(*   const_surf_conc.py    : integrate_rd() seeds the global random        *)
(*       generator, builds a grid, evaluates the analytic reference and    *)
(*       runs the external solver once.                                    *)
(*                                                                         *)
(* Floats that come from option strings are kept in tenths (float("2.5")   *)
(* is 25), logarithms are taken to base 2 on powers of two.  The external  *)
(* collaborators (the solver called by main, numpy's global generator,     *)
(* generate_grid, ReactionDiffusion, run) are modelled by what the scripts *)
(* observe of them: a call either returns a value or raises.               *)
(***************************************************************************)
EXTENDS Integers, Sequences, FiniteSets, TLC

VARIABLES
    \* ---- analytic_N_scaling.main: the options it is called with
    plot, nfitOpt, NsOpt, nNsOpt, ratesOpt, solver,
    \* ---- analytic_N_scaling.main: its locals and its position
    pc, exc, nfit, Ns, nNs, rates, gi, ri, si, ni, acc, err, p,
    \* ---- what the collaborators of main saw of it
    active, ncalls, lastCall, nfits,
    \* ---- const_surf_conc.integrate_rd: arguments, position, locals
    rdpc, rdexc, t0, tend, random_seed, random, logx, runNo,
    tout, x, Cref,
    \* ---- const_surf_conc: the global generator and the collaborators' logs
    rng, seeded, gridCalls, rdBuilt, solverRuns, atCall, grids

\* the options of main and the solver it runs against: fixed during a run
opts == <<plot, nfitOpt, NsOpt, nNsOpt, ratesOpt, solver>>

sweepVars == <<opts, pc, exc, nfit, Ns, nNs, rates, gi, ri, si, ni, acc, err,
               p, active, ncalls, lastCall, nfits>>

\* the arguments of integrate_rd: fixed during a call
args == <<t0, tend, random_seed, random, logx>>

rdVars == <<args, rdpc, rdexc, runNo, tout, x, Cref, rng, seeded, gridCalls,
            rdBuilt, solverRuns, atCall, grids>>

vars == <<sweepVars, rdVars>>

\* ------------------------------------------------------------------------
\* Bounds of the model
\* ------------------------------------------------------------------------

\* longest resolution ladder (nNs, or the entries of an explicit Ns list)
MaxLadder == 2

\* most entries of the rates list
MaxRates == 2

\* t0 ranges over -MaxT..MaxT, tend up to MaxT + 1
MaxT == 1

\* largest random_seed
MaxSeed == 2

\* states of the global random generator
RngMod == 3

\* bins of the grid (N) and output times (nt) of integrate_rd
GridN == 2

NT == 3

\* ------------------------------------------------------------------------
\* Python helpers
\* ------------------------------------------------------------------------

RECURSIVE SumSeq(_)
SumSeq(s) == IF s = <<>> THEN 0 ELSE Head(s) + SumSeq(Tail(s))

RECURSIVE Pow2(_)
Pow2(i) == IF i = 0 THEN 1 ELSE 2 * Pow2(i - 1)

\* np.log, to base 2, on the powers of two the model uses
RECURSIVE Log2(_)
Log2(n) == IF n <= 1 THEN 0 ELSE 1 + Log2(n \div 2)

\* s[:k] for a non-negative k
Prefix(s, k) == SubSeq(s, 1, IF k < Len(s) THEN k ELSE Len(s))

\* float(tok), in tenths; the tokens are what split(',') returns
FloatTable == [t \in {"0", "0.1", "1", "2.5", "8", "16"} |->
                 CASE t = "0" -> 0 [] t = "0.1" -> 1 [] t = "1" -> 10
                   [] t = "2.5" -> 25 [] t = "8" -> 80 [] t = "16" -> 160]

IsFloat(tok) == tok \in DOMAIN FloatTable

FloatOf(tok) == FloatTable[tok]

\* int(tok): a decimal point or a stray character raises ValueError
IntTable == [t \in {"0", "1", "8", "16"} |->
               CASE t = "0" -> 0 [] t = "1" -> 1 [] t = "8" -> 8
                 [] t = "16" -> 16]

IsInt(tok) == tok \in DOMAIN IntTable

IntOf(tok) == IntTable[tok]

\* a float used as a slice bound is truncated to an integer (the numpy the
\* script was written for warns and truncates)
SliceIndex(f) == f \div 10

\* ------------------------------------------------------------------------
\* analytic_N_scaling.py
\* ------------------------------------------------------------------------

\* nstencils = [3, 5, 7]
nstencils == <<3, 5, 7>>

\* FLAT, CYLINDRICAL, SPHERICAL index the string 'fcs'
Geoms == <<"f", "c", "s">>

\* the tokens the option strings are made of ("x" is malformed)
NfitTokens == {"1", "2.5", "x"}

NsTokens == {"8", "16", "x"}

\* the RMSD/atol series over time one call of integrate_rd may hand back
RmsdSeries == {<<2, 2>>, <<4, 12>>}

\* np.average(rmsd_over_atol, axis=1)
Average(rows) == [i \in 1..Len(rows) |-> SumSeq(rows[i]) \div Len(rows[i])]

\* np.log(v), elementwise
LogAll(v) == [i \in 1..Len(v) |-> Log2(v[i])]

Dot(a, b) == SumSeq([i \in 1..Len(a) |-> a[i] * b[i]])

\* np.polyfit(xs, ys, 1) as <<slope numerator, intercept numerator, common
\* denominator>>; a zero denominator is numpy's rank-deficient fit
Polyfit(xs, ys) ==
    LET n == Len(xs)
        den == n * Dot(xs, xs) - SumSeq(xs) * SumSeq(xs)
    IN  <<n * Dot(xs, ys) - SumSeq(xs) * SumSeq(ys),
          SumSeq(ys) * Dot(xs, xs) - SumSeq(xs) * Dot(xs, ys),
          den>>

\* the ladder with the exponent lost: 8*(2**0) for every i
LadderFlat(n) == [i \in 1..n |-> 8]

\* [8*(2**i) for i in range(nNs)]
Ladder(n) == [i \in 1..n |-> 8 * Pow2(i - 1)]

\* every N a ladder of the model can hold
NValues == {8 * Pow2(i) : i \in 0..(MaxLadder - 1)}
           \cup {IntOf(t) : t \in {u \in NsTokens : IsInt(u)}}

\* the default rates '0,0.1', shortened or continued in turn, and the same
\* list with a malformed last entry
RateCycle(n) == [i \in 1..n |-> IF i % 2 = 1 THEN "0" ELSE "0.1"]

RatesOptions == UNION {{RateCycle(n), [RateCycle(n) EXCEPT ![n] = "x"]} :
                         n \in 1..MaxRates}

\* nfit lists one entry short of the stencil orders, matching them, and one
\* entry too long
NfitOptions ==
    LET n == Len(nstencils)
    IN  [1..(n - 1) -> NfitTokens] \cup [1..n -> NfitTokens]
        \cup {Append(l, "1") : l \in [1..n -> NfitTokens]}

AllTriples == (0..2) \X (0..(MaxRates - 1)) \X (0..2)

InitSweep ==
    /\ plot \in BOOLEAN
    /\ nfitOpt \in NfitOptions
    \* Ns=None is the empty sequence: split(',') never returns one
    /\ NsOpt \in {<<>>} \cup UNION {[1..n -> NsTokens] : n \in 1..MaxLadder}
    /\ nNsOpt \in IF NsOpt = <<>> THEN 1..MaxLadder ELSE {7}
    /\ ratesOpt \in RatesOptions
    \* the external solver is deterministic: its error depends on N
    /\ solver \in [NValues -> RmsdSeries]
    /\ pc = "nfit"
    /\ exc = ""
    /\ nfit = <<>>
    /\ Ns = <<>>
    /\ nNs = nNsOpt
    /\ rates = <<>>
    /\ gi = 0 /\ ri = 0 /\ si = 0 /\ ni = 0
    /\ acc = <<>>
    /\ err = <<>>
    /\ p = <<>>
    /\ active = 0
    /\ ncalls = 0
    /\ lastCall = <<>>
    /\ nfits = [t \in AllTriples |-> 0]

\* the sweep part at rest, for the specification of integrate_rd alone
IdleSweep ==
    /\ plot = FALSE /\ nfitOpt = <<>> /\ NsOpt = <<>> /\ nNsOpt = 0
    /\ ratesOpt = <<>> /\ solver = <<>> /\ pc = "idle" /\ exc = ""
    /\ nfit = <<>>
    /\ Ns = <<>> /\ nNs = 0 /\ rates = <<>>
    /\ gi = 0 /\ ri = 0 /\ si = 0 /\ ni = 0
    /\ acc = <<>> /\ err = <<>> /\ p = <<>>
    /\ active = 0 /\ ncalls = 0 /\ lastCall = <<>>
    /\ nfits = [t \in AllTriples |-> 0]

\* line 52: nfit = [float(_) for _ in nfit.split(',')]
ParseNfit ==
    /\ pc = "nfit"
    /\ IF \A i \in 1..Len(nfitOpt) : IsFloat(nfitOpt[i])
       THEN /\ nfit' = [i \in 1..Len(nfitOpt) |-> FloatOf(nfitOpt[i])]
            /\ pc' = "Ns"
            /\ exc' = exc
       ELSE /\ pc' = "raised"
            /\ exc' = "ValueError"
            /\ nfit' = nfit
    /\ UNCHANGED <<rdVars, opts, Ns, nNs, rates,
                   gi, ri, si, ni, acc, err, p, active, ncalls,
                   lastCall, nfits>>

\* lines 56-60: the resolution ladder
BuildNs ==
    /\ pc = "Ns"
    /\ IF NsOpt = <<>>
       THEN /\ Ns' = Ladder(nNs)
            /\ nNs' = nNs
            /\ pc' = "rates"
            /\ exc' = exc
       ELSE IF \A i \in 1..Len(NsOpt) : IsInt(NsOpt[i])
       THEN /\ Ns' = [i \in 1..Len(NsOpt) |-> IntOf(NsOpt[i])]
            /\ nNs' = Len(NsOpt)
            /\ pc' = "rates"
            /\ exc' = exc
       ELSE /\ pc' = "raised"
            /\ exc' = "ValueError"
            /\ UNCHANGED <<Ns, nNs>>
    /\ UNCHANGED <<rdVars, opts, nfit, rates,
                   gi, ri, si, ni, acc, err, p, active, ncalls,
                   lastCall, nfits>>

\* line 65: rates = list(map(float, rates.split(','))), then the loops start
ParseRates ==
    /\ pc = "rates"
    /\ IF \A i \in 1..Len(ratesOpt) : IsFloat(ratesOpt[i])
       THEN /\ rates' = [i \in 1..Len(ratesOpt) |-> FloatOf(ratesOpt[i])]
            /\ pc' = "loop"
            /\ exc' = exc
       ELSE /\ pc' = "raised"
            /\ exc' = "ValueError"
            /\ rates' = rates
    /\ UNCHANGED <<rdVars, opts, nfit, Ns, nNs,
                   gi, ri, si, ni, acc, err, p, active, ncalls,
                   lastCall, nfits>>

\* lines 71-73: integrate_rd(N=N, nstencil=nstencil, k=rate, geom='fcs'[geom])
\* is entered for the next N of the list comprehension
IntegrateCall ==
    /\ pc = "loop"
    /\ ni < Len(Ns)
    /\ active' = active + 1
    /\ ncalls' = ncalls + 1
    /\ lastCall' = <<Geoms[gi + 1], rates[ri + 1], nstencils[si + 1],
                      Ns[ni + 1]>>
    /\ pc' = "call"
    /\ UNCHANGED <<rdVars, opts, exc, nfit, Ns, nNs,
                   rates, gi, ri, si, ni, acc, err, p, nfits>>

\* the call returns its tuple, which the comprehension collects
IntegrateReturn ==
    /\ pc = "call"
    /\ acc' = Append(acc, solver[Ns[ni + 1]])
    /\ active' = active - 1
    /\ ni' = ni + 1
    /\ pc' = "loop"
    /\ UNCHANGED <<rdVars, opts, exc, nfit, Ns, nNs,
                   rates, gi, ri, si, err, p, ncalls, lastCall, nfits>>

\* the call raises: nothing in main catches it
IntegrateRaise ==
    /\ pc = "call"
    /\ active' = active - 1
    /\ pc' = "raised"
    /\ exc' = "SolverFailure"
    /\ UNCHANGED <<rdVars, opts, nfit, Ns, nNs,
                   rates, gi, ri, si, ni, acc, err, p, ncalls, lastCall,
                   nfits>>

\* the loop headers of lines 66-68, advanced past the triple (gi, ri, si)
LastTriple == gi = Len(Geoms) - 1 /\ ri = Len(rates) - 1
              /\ si = Len(nstencils) - 1

\* the loops with the rate loop nested inside the stencil loop
AdvanceRateInnermost ==
    /\ ni' = 0
    /\ acc' = <<>>
    /\ IF ri < Len(rates) - 1
       THEN ri' = ri + 1 /\ UNCHANGED <<gi, si>>
       ELSE IF si < Len(nstencils) - 1
       THEN ri' = 0 /\ si' = si + 1 /\ gi' = gi
       ELSE IF gi < Len(Geoms) - 1
       THEN si' = 0 /\ ri' = 0 /\ gi' = gi + 1
       ELSE UNCHANGED <<gi, ri, si>>
    /\ pc' = IF LastTriple THEN "finish" ELSE "loop"

Advance ==
    /\ ni' = 0
    /\ acc' = <<>>
    /\ IF si < Len(nstencils) - 1
       THEN si' = si + 1 /\ UNCHANGED <<gi, ri>>
       ELSE IF ri < Len(rates) - 1
       THEN si' = 0 /\ ri' = ri + 1 /\ gi' = gi
       ELSE IF gi < Len(Geoms) - 1
       THEN si' = 0 /\ ri' = 0 /\ gi' = gi + 1
       ELSE UNCHANGED <<gi, ri, si>>
    /\ pc' = IF LastTriple THEN "finish" ELSE "loop"

\* line 81: the points handed to np.polyfit for stencil index s
FitLength(s) == SliceIndex(nfit[s + 1])

\* the fit taken over the whole ladder
FitInputAll(s, v) == v

FitInput(s, v) == Prefix(v, FitLength(s))

\* the fit made outside the plot branch
ShouldFitAlways == TRUE

\* line 80: if plot:
ShouldFit == plot

\* lines 70-99, after the last call of the comprehension has returned:
\* unpack, average, take logarithms and, when plotting, fit and draw
PostProcess ==
    /\ pc = "loop"
    /\ ni = Len(Ns)
    /\ err' = Average(acc)
    /\ IF ~ShouldFit
       THEN /\ Advance
            /\ UNCHANGED <<exc, p, nfits>>
       ELSE IF si + 1 > Len(nfit)
       THEN \* nfit[si] is out of range
            /\ pc' = "raised"
            /\ exc' = "IndexError"
            /\ UNCHANGED <<gi, ri, si, ni, acc, p, nfits>>
       ELSE IF FitInput(si, LogAll(Ns)) = <<>>
       THEN \* np.polyfit refuses an empty vector (an nfit entry below 1)
            /\ pc' = "raised"
            /\ exc' = "TypeError"
            /\ UNCHANGED <<gi, ri, si, ni, acc, p, nfits>>
       ELSE /\ p' = Polyfit(FitInput(si, LogAll(Ns)),
                            FitInput(si, LogAll(err')))
            /\ nfits' = [nfits EXCEPT ![<<gi, ri, si>>] = @ + 1]
            /\ Advance
            /\ exc' = exc
    /\ UNCHANGED <<rdVars, opts, nfit, Ns, nNs,
                   rates, active, ncalls, lastCall>>

\* lines 101-103: the figure is laid out and saved or shown, main returns
Finish ==
    /\ pc = "finish"
    /\ pc' = "done"
    /\ UNCHANGED <<rdVars, opts, exc, nfit, Ns, nNs,
                   rates, gi, ri, si, ni, acc, err, p, active, ncalls,
                   lastCall, nfits>>

NextSweep ==
    \/ ParseNfit
    \/ BuildNs
    \/ ParseRates
    \/ IntegrateCall
    \/ IntegrateReturn
    \/ IntegrateRaise
    \/ PostProcess
    \/ Finish

\* ------------------------------------------------------------------------
\* const_surf_conc.py
\* ------------------------------------------------------------------------

\* np.random.seed(s): the generator's state becomes a function of s alone
SeedState(s) == s % RngMod

\* one draw of the global generator: the value drawn and the state after
Draw(r) == [value |-> r % 2, state |-> (r + 1) % RngMod]

RECURSIVE Draws(_, _)
Draws(r, n) == IF n = 0 THEN <<>>
               ELSE <<Draw(r).value>> \o Draws(Draw(r).state, n - 1)

RECURSIVE StateAfter(_, _)
StateAfter(r, n) == IF n = 0 THEN r ELSE StateAfter(Draw(r).state, n - 1)

\* generate_grid(x0, xend, N, logx, random=random): the N+1 edges, evenly
\* spaced (in twentieths of a bin) and, with random, each moved by a draw
generate_grid(N, lg, rnd, r) ==
    [logx |-> lg,
     edges |-> [i \in 1..(N + 1) |->
                  20 * (i - 1) + IF rnd THEN Draws(r, N + 1)[i] ELSE 0]]

\* np.linspace(t0, tend, nt), in units of 1/(nt-1)
linspace(a, b, n) == [i \in 1..n |-> a * (n - 1) + (i - 1) * (b - a)]

\* analytic(x, t, D, x0, xend, logx): c_s*erfc(x/(2*(D*t)**0.5)) per time
\* point, by what numpy computes for D > 0 and x > 0: a negative D*t has
\* no real square root (nan), t = 0 divides by zero (erfc(inf) = 0), a
\* positive t gives a value in (0, c_s).  Nothing here raises.
analytic(t) ==
    [i \in 1..Len(t) |->
        IF t[i] < 0 THEN "nan" ELSE IF t[i] = 0 THEN "zero" ELSE "finite"]

\* what a caller can observe of the collaborators
Observable == <<rng, seeded, gridCalls, rdBuilt, solverRuns>>

InitRD ==
    /\ t0 \in (0 - MaxT)..MaxT
    /\ tend \in (t0 + 1)..(MaxT + 1)
    /\ random_seed \in 0..MaxSeed
    /\ random \in BOOLEAN
    /\ logx \in BOOLEAN
    /\ rng \in 0..(RngMod - 1)
    /\ rdpc = "check"
    /\ rdexc = ""
    /\ runNo = 1
    /\ tout = <<>>
    /\ x = <<>>
    /\ Cref = <<>>
    /\ seeded = 0
    /\ gridCalls = 0
    /\ rdBuilt = 0
    /\ solverRuns = 0
    /\ atCall = <<rng, 0, 0, 0, 0>>
    /\ grids = <<>>

\* the t0 test placed after the seeding of lines 91-92
CheckT0AfterSeed ==
    /\ rdpc = "check"
    /\ IF random_seed # 0
       THEN rng' = SeedState(random_seed) /\ seeded' = seeded + 1
       ELSE UNCHANGED <<rng, seeded>>
    /\ IF t0 = 0
       THEN rdpc' = "raised" /\ rdexc' = "ValueError"
       ELSE rdpc' = "seed" /\ rdexc' = rdexc
    /\ UNCHANGED <<sweepVars, args, runNo, tout, x, Cref, gridCalls, rdBuilt,
                   solverRuns, atCall, grids>>

\* lines 89-90: if t0 == 0.0: raise ValueError
CheckT0 ==
    /\ rdpc = "check"
    /\ IF t0 = 0
       THEN rdpc' = "raised" /\ rdexc' = "ValueError"
       ELSE rdpc' = "seed" /\ rdexc' = rdexc
    /\ UNCHANGED <<sweepVars, args, runNo, tout, x, Cref,
                   rng, seeded, gridCalls, rdBuilt, solverRuns, atCall, grids>>

\* lines 91-93: if random_seed: np.random.seed(random_seed); tout
SeedAndTout ==
    /\ rdpc = "seed"
    /\ IF random_seed # 0
       THEN rng' = SeedState(random_seed) /\ seeded' = seeded + 1
       ELSE UNCHANGED <<rng, seeded>>
    /\ tout' = linspace(t0, tend, NT)
    /\ rdpc' = "grid"
    /\ UNCHANGED <<sweepVars, args, rdexc, runNo, x, Cref,
                   gridCalls, rdBuilt, solverRuns, atCall, grids>>

\* line 99: x = generate_grid(x0, xend, N, logx, random=random)
SetupGrid ==
    /\ rdpc = "grid"
    /\ x' = generate_grid(GridN, logx, random, rng)
    /\ rng' = IF random THEN StateAfter(rng, GridN + 1) ELSE rng
    /\ gridCalls' = gridCalls + 1
    /\ grids' = Append(grids, x')
    /\ rdpc' = "rd"
    /\ UNCHANGED <<sweepVars, args, rdexc, runNo, tout,
                   Cref, seeded, rdBuilt, solverRuns, atCall>>

\* lines 102-121: rd = ReactionDiffusion(...)
BuildRD ==
    /\ rdpc = "rd"
    /\ rdBuilt' = rdBuilt + 1
    /\ rdpc' = "analytic"
    /\ UNCHANGED <<sweepVars, args, rdexc, runNo, tout, x,
                   Cref, rng, seeded, gridCalls, solverRuns, atCall, grids>>

\* lines 124-128: Cref = analytic(rd.xcenters, tout, ...), source, y0
CalcCref ==
    /\ rdpc = "analytic"
    /\ Cref' = analytic(tout)
    /\ rdpc' = "run"
    /\ UNCHANGED <<sweepVars, args, rdexc, runNo, tout, x,
                   rng, seeded, gridCalls, rdBuilt, solverRuns, atCall, grids>>

\* lines 131-196: integr = run(rd, y0, tout, ...) returns; the error is
\* computed and the tuple returned
RunReturn ==
    /\ rdpc = "run"
    /\ solverRuns' = solverRuns + 1
    /\ rdpc' = "done"
    /\ UNCHANGED <<sweepVars, args, rdexc, runNo, tout, x,
                   Cref, rng, seeded, gridCalls, rdBuilt, atCall, grids>>

\* line 131: run(...) raises
RunRaise ==
    /\ rdpc = "run"
    /\ solverRuns' = solverRuns + 1
    /\ rdpc' = "raised"
    /\ rdexc' = "SolverFailure"
    /\ UNCHANGED <<sweepVars, args, runNo, tout, x, Cref,
                   rng, seeded, gridCalls, rdBuilt, atCall, grids>>

\* between two calls the caller's code may draw from the global generator
OtherDraw ==
    /\ rdpc \in {"done", "raised", "caller"}
    /\ runNo = 1
    /\ rng' = Draw(rng).state
    /\ rdpc' = "caller"
    /\ UNCHANGED <<sweepVars, args, rdexc, runNo, tout, x, Cref, seeded,
                   gridCalls, rdBuilt, solverRuns, atCall, grids>>

\* integrate_rd is called again with the same arguments
CallAgain ==
    /\ rdpc \in {"done", "raised", "caller"}
    /\ runNo = 1
    /\ runNo' = 2
    /\ rdpc' = "check"
    /\ rdexc' = ""
    /\ tout' = <<>>
    /\ x' = <<>>
    /\ Cref' = <<>>
    /\ atCall' = Observable
    /\ UNCHANGED <<sweepVars, args, rng, seeded, gridCalls, rdBuilt,
                   solverRuns, grids>>

NextRD ==
    \/ CheckT0
    \/ SeedAndTout
    \/ SetupGrid
    \/ BuildRD
    \/ CalcCref
    \/ RunReturn
    \/ RunRaise
    \/ OtherDraw
    \/ CallAgain

\* the integrate_rd part at rest, for the specification of main alone
IdleRD ==
    /\ t0 = 1 /\ tend = 2 /\ random_seed = 0 /\ random = FALSE
    /\ logx = FALSE /\ rng = 0 /\ rdpc = "idle" /\ rdexc = "" /\ runNo = 1
    /\ tout = <<>> /\ x = <<>> /\ Cref = <<>> /\ seeded = 0
    /\ gridCalls = 0 /\ rdBuilt = 0 /\ solverRuns = 0
    /\ atCall = <<0, 0, 0, 0, 0>> /\ grids = <<>>

\* ------------------------------------------------------------------------
\* Specifications
\* ------------------------------------------------------------------------

\* one run of analytic_N_scaling.main
InitMain == InitSweep /\ IdleRD

SpecSweep == InitMain /\ [][NextSweep]_vars

\* two calls of const_surf_conc.integrate_rd with the same arguments
InitIntegrate == InitRD /\ IdleSweep

SpecRD == InitIntegrate /\ [][NextRD]_vars

\* ------------------------------------------------------------------------
\* Properties of analytic_N_scaling.main (checked under SpecSweep)
\* ------------------------------------------------------------------------

\* the solver invocations of a sweep that runs to its end
TotalCalls == Len(Geoms) * Len(rates) * Len(nstencils) * Len(Ns)

\* the arguments of the k-th invocation when the loops nest geometry, rate,
\* stencil, N
Combo(k) ==
    LET i == k - 1
        L == Len(Ns)
        S == Len(nstencils)
        R == Len(rates)
    IN  <<Geoms[(i \div (L * S * R)) + 1], rates[((i \div (L * S)) % R) + 1],
          nstencils[((i \div L) % S) + 1], Ns[(i % L) + 1]>>

\* the triples of this run and the place of a triple in the loop order
Triples == {t \in AllTriples : t[2] < Len(rates)}

TripleIndex(t) == (t[1] * Len(rates) + t[2]) * Len(nstencils) + t[3]

\* the invocations made once the triple t has been integrated at every N
CallsThrough(t) == (TripleIndex(t) + 1) * Len(Ns)

Stopped == pc \in {"done", "raised"}

StrictlyIncreasing(v) == \A i \in 1..(Len(v) - 1) : v[i] < v[i + 1]

\* the ErrorSeries of the triple last post-processed: zip(Ns, err)
ErrorSeries == [i \in 1..Len(err) |-> <<Ns[i], err[i]>>]

SeriesNs == [i \in 1..Len(err) |-> ErrorSeries[i][1]]

\* the resolution list as the options state it
ConfiguredLadder ==
    IF NsOpt = <<>> THEN [i \in 1..nNsOpt |-> Pow2(i + 2)]
    ELSE [i \in 1..Len(NsOpt) |-> IntOf(NsOpt[i])]

\* the option strings main is meant to refuse
Misconfigured ==
    \/ \E i \in 1..Len(nfitOpt) : ~IsFloat(nfitOpt[i])
    \/ \E i \in 1..Len(NsOpt) : ~IsInt(NsOpt[i])
    \/ \E i \in 1..Len(ratesOpt) : ~IsFloat(ratesOpt[i])
    \/ Len(nfitOpt) # Len(nstencils)

\* C1 as stated: a solver call that raises does not abort the run, the
\* solver is still invoked for every remaining combination; so a run that
\* has stopped after a solver failure has made every invocation of the sweep.
C1_SweepContinuesAfterFailure ==
    (Stopped /\ exc = "SolverFailure") => ncalls = TotalCalls

\* C2 as stated: when the solver fails for one N of a triple, main does not
\* raise, the triple's series holds the other resolutions only and, when
\* fits are made, the triple has got its fit.
C2_FailedPointExcludedFromFit ==
    exc = "SolverFailure" =>
        /\ pc # "raised"
        /\ Stopped => /\ Len(err) = Len(Ns) - 1
                       /\ (ShouldFit /\ si < Len(nfit))
                             => nfits[<<gi, ri, si>>] = 1

\* C4 as stated: a misconfigured sweep (a malformed nfit, rates or Ns list,
\* or an nfit list that is shorter or longer than the three stencil orders)
\* aborts before the first solver invocation: it never invokes the solver
\* and never runs to its end.
C4_MisconfiguredAbortsFirst ==
    Misconfigured => (ncalls = 0 /\ pc # "done")

C7_SeriesStrictlyIncreasing ==
    err # <<>> => /\ SeriesNs = ConfiguredLadder
                  /\ StrictlyIncreasing(SeriesNs)

\* C7 amended: the N values of every ErrorSeries equal, in order, the
\* configured ladder; they are strictly increasing when the ladder is
\* generated from nNs, and for an explicit Ns list exactly when that list is
\* strictly increasing as given (main neither sorts nor checks it).
C7_SeriesMatchesLadder ==
    err # <<>> =>
        /\ SeriesNs = ConfiguredLadder
        /\ NsOpt = <<>> => StrictlyIncreasing(SeriesNs)
        /\ NsOpt # <<>> =>
              (StrictlyIncreasing(SeriesNs) <=>
                 \A i \in 1..(Len(NsOpt) - 1) :
                     IntOf(NsOpt[i]) < IntOf(NsOpt[i + 1]))

\* C7 witness: a series was produced for an explicit list that descends
C7_Witness == err # <<>> /\ NsOpt = <<"16", "8">> /\ SeriesNs = <<16, 8>>

\* C8: the k-th solver invocation is the k-th combination in the nested
\* order geometry, rate, stencil, N (so no combination is invoked twice and
\* none out of turn), at most one invocation is in progress, and a run that
\* reaches its end has made 3 * len(rates) * 3 * len(Ns) invocations.
C8_OncePerCombinationInOrder ==
    /\ active \in {0, 1}
    /\ active = 1 <=> pc = "call"
    /\ ncalls <= TotalCalls
    /\ ncalls > 0 => lastCall = Combo(ncalls)
    /\ pc = "done" => ncalls = 3 * Len(ratesOpt) * 3 * Len(ConfiguredLadder)

\* C8 witness: a sweep over two rates and two resolutions ran to its end
C8_Witness ==
    pc = "done" /\ Len(rates) = 2 /\ Len(Ns) = 2 /\ ncalls = 36

C3_NonPositiveT0Rejected ==
    /\ t0 <= 0 => /\ Cref = <<>>
                  /\ rdpc # "check" => rdexc = "ValueError"
    /\ t0 > 0 => rdexc # "ValueError"

\* C6 as stated: two calls with random=True and the same random_seed, N and
\* logx build the same grid, whatever the seed and whatever the generator's
\* state before each call.
C6_SameSeedSameGrid ==
    (random /\ Len(grids) = 2) => grids[1] = grids[2]

\* C10: when integrate_rd raises for t0 == 0, the generator has not been
\* reseeded, no grid and no ReactionDiffusion have been built, the solver
\* has not run and no local has been set: what can be observed is what it
\* was when the call was made.
C10_T0RejectedBeforeEffects ==
    (rdpc = "raised" /\ rdexc = "ValueError") =>
        /\ Observable = atCall
        /\ tout = <<>> /\ x = <<>> /\ Cref = <<>>
        /\ Len(grids) = atCall[3]

\* C10 witness: the second call is rejected with a seed that would have
\* moved the generator
C10_Witness ==
    /\ rdpc = "raised" /\ rdexc = "ValueError" /\ runNo = 2
    /\ random_seed # 0 /\ rng # SeedState(random_seed)

=============================================================================
